---- MODULE Spec2Model ----
(***************************************************************************)
(* Motion kernel of the Teensy 4.1 dual stepper-motor controller.          *)
(*                                                                         *)
(* Speeds are steps/second.  The firmware keeps them in 32-bit floats; the  *)
(* model keeps them as fixed-point numbers, in units of 1/SpeedScale       *)
(* step/second.  All values that occur here are multiples of that unit     *)
(* below 2^24 units (sums and differences of the arguments and of          *)
(* accelStep = 80 steps/second), which floats hold exactly.                *)
(* boostConfig.multiplier is kept in tenths (15 = 1.5) and every product   *)
(* speed * multiplier that the inputs can form is a whole number of units. *)
(*                                                                         *)
(* Time is counted in milliseconds and only through the differences the    *)
(* code computes: millis() - boostStartTime, millis() - lastAccelUpdate    *)
(* and millis() - stopStartTime.  It advances in quanta of                 *)
(* accelUpdateInterval (10 ms): delay(accelUpdateInterval) in the busy     *)
(* waits, and the idle spinning of loop() between two control ticks.       *)
(***************************************************************************)
EXTENDS Integers, Sequences, FiniteSets, TLC

\* ---------------------------------------------------------------- constants
\* the units of a float speed or rate that make one step/second
SpeedScale == 2
\* x steps/second as the firmware's float holds it
Sps(x) == x * SpeedScale

MAX_SPEED == Sps(20000)
ACCEL_RATE == Sps(8000)
BOOST_MULTIPLIER == 15
BOOST_DURATION == 800
accelUpdateInterval == 10
DIR_HIGH_THRESHOLD == Sps(500)
DIR_LOW_THRESHOLD == Sps(300)
DIR_SAFE_SPEED == Sps(200)
STOP_THRESHOLD == Sps(1)
ESTOP_TIMEOUT == 500
SYNC_THRESHOLD == 100
SETUP_TIME == 3 * (100 + 100)

\* ------------------------------------------------------------------- bounds
\* the longest boost duration a CONFIG:BOOST command of the model sets
MaxDuration == 50
\* the number of command lines the host sends in one run
MaxCommands == 3
\* millis() - stopStartTime is followed up to this value and held there
StopElapsedCap == 600
\* the step counters are followed while |position| stays within this value
MaxPosition == 2
\* single-motor firmware: the ms by which millis() advances at a time
MillisStep == 250
\* single-motor firmware: the command lines followed
SimMaxCommands == 3
\* single-motor firmware: stepsExecuted is followed up to this value
MaxSteps == 2

\* --------------------------------------------------------------- input sets
Motors == {1, 2}
\* numeric arguments of SPEED, SPIN and BOOST
SpeedArgs == {Sps(0), Sps(200), Sps(800)}
BoostArgs == {Sps(-80), Sps(200), Sps(800)}
\* the same for the runs that start at full speed
HighSpeedArgs == {Sps(0), Sps(25000)}
HighBoostArgs == {Sps(-80), Sps(200), Sps(25000)}
\* CONFIG:BOOST:multiplier:duration:enabled (multiplier in tenths)
ConfigArgs ==
  { [multiplier |-> 15, duration |-> MaxDuration, enabled |-> TRUE],
    [multiplier |-> 30, duration |-> MaxDuration, enabled |-> TRUE],
    [multiplier |-> 15, duration |-> MaxDuration, enabled |-> FALSE] }
HighConfigArgs ==
  { [multiplier |-> 15, duration |-> MaxDuration, enabled |-> TRUE],
    [multiplier |-> 1000, duration |-> MaxDuration, enabled |-> TRUE],
    [multiplier |-> 15, duration |-> MaxDuration, enabled |-> FALSE] }
\* CONFIG:BOOST arguments outside the documented ranges (multiplier 1.0 to
\* 2.0, duration 50 to 500 ms), the second beyond 16 bits
WildConfigArgs ==
  { [multiplier |-> 5, duration |-> 20, enabled |-> TRUE],
    [multiplier |-> 15, duration |-> 65556, enabled |-> TRUE] }
\* the direction words of SPIN and BOOST, as (motor 1, motor 2) directions
SpinDirs == { <<-1, 1>> }
BoostDirs == { <<1, 1>> }

\* ------------------------------------------------------------------ helpers
Abs(x) == IF x < 0 THEN -x ELSE x
Min(a, b) == IF a < b THEN a ELSE b
Max(a, b) == IF a > b THEN a ELSE b
CeilDiv(a, b) == (a + b - 1) \div b
constrain(x, lo, hi) == IF x < lo THEN lo ELSE IF x > hi THEN hi ELSE x
\* a value stored into a uint16_t
Uint16(n) == n % 65536

accelStep == (ACCEL_RATE * accelUpdateInterval) \div 1000

VARIABLES
  motor,          \* the two Motor structs
  boostConfig,    \* the process-wide BoostConfig
  sinceAccel,     \* millis() - lastAccelUpdate, held at accelUpdateInterval
  loopPos,        \* position inside loop(): "serial" or "accel"
  script,         \* calls processCommand still has to make, current one first
  wait,           \* busy-wait the current call is in: none, dir, stop, estop
  originalTarget, \* setDirection's local of that name
  stopElapsed,    \* millis() - stopStartTime inside emergencyStop
  speedReq,       \* per motor: v of a SPEED:v after which no command came
  boostReq,       \* per motor: r of an applyBoost(m, r) that started a boost,
                  \* no SPEED, SPIN, BOOST, STOP or ESTOP command since
  commands,       \* command lines processed so far
  position,       \* per motor: Motor.position, the step counter of its ISR
  tickRest,       \* steps the control tick in progress still has to make
  report,         \* positions and drift printed by the last STATUS so far
  zeroReq,        \* the last command other than STATUS was SYNC or RESET
  posRead,        \* per motor: the value last loaded from Motor.position
                  \* for a drift computation
  estopReq,       \* emergencyStop has returned and no command but RUN and
                  \* STATUS came since
  advisory,       \* the last checkSync printed its SYNC WARNING
  reply,          \* what processCommand printed for the last line it parsed
  fw,             \* the globals of the single-motor firmware
  simCommands,    \* command lines the single-motor firmware has read so far
  commanded,      \* the frequency the last SPEED or STOP of the single-motor
                  \* firmware asked for
  reversal,       \* the single-motor firmware's last direction request that
                  \* named the other direction: how far it got, the
                  \* frequency the motor was running at when it came, and
                  \* whether the motor was stopped then
  lastLine,       \* the last command line the single-motor firmware read
  serial          \* the serial port of the dual-motor firmware: rx, what has
                  \* arrived and loop() has not read; inputBuffer; sent, the
                  \* lines the host has sent; dispatched, the texts
                  \* processCommand was given

vars == << motor, boostConfig, sinceAccel, loopPos, script, wait,
           originalTarget, stopElapsed, speedReq, boostReq, commands,
           position, tickRest, report, zeroReq, estopReq, posRead, advisory,
           reply, fw, simCommands, commanded, reversal, lastLine, serial >>

\* the state of the single-motor firmware, a program of its own
simpleVars == << fw, simCommands, commanded, reversal, lastLine >>
\* the state of the dual-motor firmware
dualVars == << motor, boostConfig, sinceAccel, loopPos, script, wait,
               originalTarget, stopElapsed, speedReq, boostReq, commands,
               position, tickRest, report, zeroReq, estopReq, posRead,
               advisory, reply, serial >>

\* what only checkSync, the drift computations and the command parser change
readVars == << posRead, advisory, reply >>
\* what only the step ISRs, the split control tick, STATUS and checkSync
\* change
stepVars == << position, tickRest, report, readVars >>

\* -------------------------------------------------------------- Motor struct
\* timer: 0 when the IntervalTimer is ended, otherwise the step rate r whose
\* period 1000000.0 / r was programmed; timerAge: the ms since
\* timer.begin, followed until one period has elapsed.  boostElapsed stands for
\* millis() - boostStartTime.
InitMotor(elapsed) ==
  [ currentSpeed |-> 0, targetSpeed |-> 0, isRunning |-> FALSE,
    direction |-> 1, dirPin |-> "LOW", stepPin |-> "LOW", timer |-> 0,
    timerAge |-> 0,
    boostActive |-> FALSE, boostElapsed |-> elapsed, boostSpeed |-> 0,
    normalSpeed |-> 0 ]

\* timer.end() and timer.begin(isr, 1000000.0 / rate)
timerEnd(m) == [m EXCEPT !.timer = 0, !.timerAge = 0]
timerBegin(m, rate) == [m EXCEPT !.timer = rate, !.timerAge = 0]
\* the timer of m has run for a full period since timer.begin
PeriodElapsed(m) == m.timer > 0 /\ m.timer * m.timerAge >= Sps(1000)

DirLevel(d) == IF d = 1 THEN "LOW" ELSE "HIGH"

\* the ramp law without its final constrain
RampStepNoConstrain(cur, target) ==
  LET speedDiff == target - cur
  IN IF Abs(speedDiff) > accelStep
     THEN (IF speedDiff > 0 THEN cur + accelStep ELSE cur - accelStep)
     ELSE target

\* the ramp law without the snap to the target
RampStepNoSnap(cur, target) ==
  LET speedDiff == target - cur
      stepped == IF speedDiff > 0 THEN cur + accelStep
                 ELSE IF speedDiff < 0 THEN cur - accelStep ELSE cur
  IN constrain(stepped, 0, MAX_SPEED)

\* the ramp law of updateSpeed, after the boost-expiry check
RampStep(cur, target) ==
  LET speedDiff == target - cur
      stepped == IF Abs(speedDiff) > accelStep
                 THEN (IF speedDiff > 0 THEN cur + accelStep
                                        ELSE cur - accelStep)
                 ELSE target
  IN constrain(stepped, 0, MAX_SPEED)

\* updateSpeed dropping straight to normalSpeed when the boost expires
updateSpeedCliff(m, cfg) ==
  IF ~m.isRunning
  THEN [timerEnd(m) EXCEPT !.currentSpeed = 0]
  ELSE IF m.boostActive /\ m.boostElapsed >= cfg.duration
       THEN [m EXCEPT !.boostActive = FALSE, !.targetSpeed = m.normalSpeed,
                      !.currentSpeed = constrain(m.normalSpeed, 0, MAX_SPEED)]
       ELSE [m EXCEPT !.currentSpeed = RampStep(m.currentSpeed, m.targetSpeed)]

\* updateSpeed returning from its !isRunning branch without forcing the stop
updateSpeedNoForce(m, cfg) ==
  IF ~m.isRunning
  THEN m
  ELSE LET e == IF m.boostActive /\ m.boostElapsed >= cfg.duration
                THEN [m EXCEPT !.boostActive = FALSE,
                               !.targetSpeed = m.normalSpeed]
                ELSE m
       IN [e EXCEPT !.currentSpeed = RampStep(e.currentSpeed, e.targetSpeed)]

updateSpeed(m, cfg) ==
  IF ~m.isRunning
  THEN [timerEnd(m) EXCEPT !.currentSpeed = 0]
  ELSE LET e == IF m.boostActive /\ m.boostElapsed >= cfg.duration
                THEN [m EXCEPT !.boostActive = FALSE,
                               !.targetSpeed = m.normalSpeed]
                ELSE m
       IN [e EXCEPT !.currentSpeed = RampStep(e.currentSpeed, e.targetSpeed)]

\* one motor's half of updateTimers
updateTimer(m) ==
  IF m.currentSpeed > 0 /\ m.isRunning
  THEN timerBegin(timerEnd(m), m.currentSpeed)
  ELSE timerEnd(m)

setSpeed(m, speed) ==
  LET s == constrain(speed, 0, MAX_SPEED)
  IN [m EXCEPT !.targetSpeed = s,
               !.isRunning = IF s > 0 /\ ~m.isRunning THEN TRUE
                             ELSE IF s = 0 THEN FALSE ELSE m.isRunning]

\* applyBoost without its safety cap
applyBoostNoCap(m, speed, cfg) ==
  IF ~cfg.enabled
  THEN setSpeed(m, speed)
  ELSE LET raw == (speed * cfg.multiplier) \div 10
       IN [m EXCEPT !.normalSpeed = speed, !.boostSpeed = raw,
                    !.boostActive = TRUE, !.boostElapsed = 0,
                    !.targetSpeed = raw]

applyBoost(m, speed, cfg) ==
  IF ~cfg.enabled
  THEN setSpeed(m, speed)
  ELSE LET raw == (speed * cfg.multiplier) \div 10
           b == IF raw > MAX_SPEED THEN MAX_SPEED ELSE raw
       IN [m EXCEPT !.normalSpeed = speed, !.boostSpeed = b,
                    !.boostActive = TRUE, !.boostElapsed = 0,
                    !.targetSpeed = b]

\* millis() - boostStartTime is compared with boost durations only: it is
\* followed up to the longest duration in use and held there.
ElapsedCap(cfg) == Max(cfg.duration, MaxDuration)

\* millis() moves on by dt
Advance(mt, cfg, dt) ==
  [i \in Motors |->
     [mt[i] EXCEPT !.boostElapsed =
                     Min(mt[i].boostElapsed + dt, ElapsedCap(cfg)),
                   !.timerAge =
                     IF mt[i].timer = 0 \/ PeriodElapsed(mt[i])
                     THEN @ ELSE @ + dt]]

\* ------------------------------------------------- single-motor firmware
\* simple_main_debug.cpp is a program of its own, for one motor.  Its
\* frequencies are Hz, kept in floats; the model keeps them as fixed-point
\* numbers in units of 1/FreqScale Hz.  millis() is read only through the
\* differences millis() - rampStartTime and now - dirHoldStartMs: rampElapsed
\* and holdElapsed stand for these, each followed while the code reads it
\* (rampActive, inDirectionHold) and as far as the largest value it is
\* compared with.
FreqScale == 10
\* x Hz as the firmware's float holds it
Hz(x) == x * FreqScale

FSTART_MIN == 50
FSTART_MAX == 500
MAXHZ_MIN == 100
MAXHZ_MAX == 5750
RAMP_MIN == 100
RAMP_MAX == 10000
HOLD_MAX == 1000
MIN_RAMP_MS == 100

\* the globals as their initialisers leave them
Globals ==
  [fStart |-> Hz(100), targetFreq |-> Hz(3000), rampTimeMs |-> 1000,
   holdStationaryMs |-> 100, currentFreq |-> 0, pulseEnable |-> FALSE,
   rampElapsed |-> 0, rampDurationMs |-> 0, rampFromFreq |-> 0,
   rampToFreq |-> 0, rampActive |-> FALSE, curDirFwd |-> TRUE,
   reqDirFwd |-> TRUE, dirChangeRequested |-> FALSE, holdElapsed |-> 0,
   inDirectionHold |-> FALSE, stepState |-> FALSE, stepPin |-> "LOW",
   stepsExecuted |-> 0]

\* stepISR with the pulseEnable test left out
stepISRAlways(g) ==
  [g EXCEPT !.stepState = ~@,
            !.stepPin = IF g.stepState THEN "LOW" ELSE "HIGH",
            !.stepsExecuted = IF g.stepState THEN @ ELSE @ + 1]

\* one invocation of the step ISR
stepISR(g) ==
  IF ~g.pulseEnable THEN g
  ELSE [g EXCEPT !.stepState = ~@,
                 !.stepPin = IF g.stepState THEN "LOW" ELSE "HIGH",
                 !.stepsExecuted = IF g.stepState THEN @ ELSE @ + 1]

\* dirPin follows curDirFwd: the two are written together
updateTimerInterval(g, freq) ==
  LET f == Min(Max(freq, 0), g.targetFreq)
  IN IF f < Hz(1)
     THEN [g EXCEPT !.pulseEnable = FALSE, !.currentFreq = 0,
                    !.stepPin = "LOW"]
     ELSE [g EXCEPT !.currentFreq = f, !.pulseEnable = TRUE]

startRamp(g, toFreq) ==
  LET freqChange == Abs(toFreq - g.currentFreq)
      freqRange == g.targetFreq - g.fStart
  IN [g EXCEPT !.rampFromFreq = g.currentFreq,
               !.rampToFreq = toFreq,
               !.rampElapsed = 0,
               !.rampDurationMs =
                 IF freqRange > 0
                 THEN Max((g.rampTimeMs * freqChange) \div freqRange,
                          MIN_RAMP_MS)
                 ELSE g.rampTimeMs,
               !.rampActive = TRUE]

\* (1.0 - cos(PI * t)) / 2.0 in thousandths, tabulated at the tenths of the
\* ramp; t is rounded down to the tenth
sCurve(elapsed, duration) ==
  << 0, 24, 95, 206, 345, 500, 655, 794, 905, 976 >>
    [((10 * elapsed) \div duration) + 1]

updateRamp(g) ==
  IF ~g.rampActive THEN g
  ELSE IF g.rampElapsed >= g.rampDurationMs
  THEN [updateTimerInterval(g, g.rampToFreq) EXCEPT !.rampActive = FALSE]
  ELSE updateTimerInterval(g,
         (g.rampFromFreq * 1000
          + (g.rampToFreq - g.rampFromFreq)
            * sCurve(g.rampElapsed, g.rampDurationMs)) \div 1000)

\* handleDirectionChange without the ramp-down it starts when the motor is
\* above fStart
handleDirectionChangeNoRamp(g) ==
  IF ~g.dirChangeRequested THEN g
  ELSE IF g.currentFreq > g.fStart /\ ~g.inDirectionHold THEN g
  ELSE IF g.rampActive THEN g
  ELSE IF ~g.inDirectionHold
  THEN [updateTimerInterval(g, g.fStart) EXCEPT !.inDirectionHold = TRUE,
                                                !.holdElapsed = 0]
  ELSE IF g.holdElapsed >= g.holdStationaryMs
  THEN [g EXCEPT !.curDirFwd = g.reqDirFwd,
                 !.dirChangeRequested = FALSE,
                 !.inDirectionHold = FALSE]
  ELSE g

handleDirectionChange(g) ==
  IF ~g.dirChangeRequested THEN g
  ELSE IF g.currentFreq > g.fStart /\ ~g.inDirectionHold
  THEN IF ~g.rampActive THEN startRamp(g, g.fStart) ELSE g
  ELSE IF g.rampActive THEN g
  ELSE IF ~g.inDirectionHold
  THEN [updateTimerInterval(g, g.fStart) EXCEPT !.inDirectionHold = TRUE,
                                                !.holdElapsed = 0]
  ELSE IF g.holdElapsed >= g.holdStationaryMs
  THEN [g EXCEPT !.curDirFwd = g.reqDirFwd,
                 !.dirChangeRequested = FALSE,
                 !.inDirectionHold = FALSE]
  ELSE g

simpleSetDirection(g, forward) ==
  [g EXCEPT !.reqDirFwd = forward,
            !.dirChangeRequested = IF g.curDirFwd # forward THEN TRUE ELSE @]

\* the frequency a SPEED:hz asks the ramp for
speedTarget(g, hz) ==
  IF hz <= 0 THEN 0 ELSE constrain(hz, g.fStart, g.targetFreq)

simpleSetSpeed(g, hz) == startRamp(g, speedTarget(g, hz))

\* stopMotor leaving a pending direction change in place
simpleStopMotorKeepRequest(g) == startRamp(g, 0)

simpleStopMotor(g) ==
  [startRamp(g, 0) EXCEPT !.dirChangeRequested = FALSE,
                          !.inDirectionHold = FALSE]

\* value is the number as typed: Hz for FSTART and MAXHZ, ms for RAMP and HOLD
applyConfig(g, param, value) ==
  IF param = "FSTART"
  THEN [g EXCEPT !.fStart = constrain(Hz(value), Hz(FSTART_MIN),
                                      Hz(FSTART_MAX))]
  ELSE IF param \in {"MAXHZ", "TARGETFREQ"}
  THEN [g EXCEPT !.targetFreq = constrain(Hz(value), Hz(MAXHZ_MIN),
                                          Hz(MAXHZ_MAX))]
  ELSE IF param \in {"RAMP", "RAMPMS"}
  THEN [g EXCEPT !.rampTimeMs = constrain(value, RAMP_MIN, RAMP_MAX)]
  ELSE IF param \in {"HOLD", "HOLDMS", "STATIONARYMS"}
  THEN [g EXCEPT !.holdStationaryMs = constrain(value, 0, HOLD_MAX)]
  ELSE g

\* a command line of the single-motor firmware, trimmed and upper-cased:
\* its verb, the word after the first colon and the number toFloat() makes
\* of the last field
Line(verb, word, value) == [verb |-> verb, word |-> word, value |-> value]

ForwardWords == {"FWD", "FORWARD"}
BackwardWords == {"BWD", "BACKWARD", "BACK"}

\* the command branch of loop()
serialCommand(g, line) ==
  IF line.verb = "DIR"
  THEN IF line.word \in ForwardWords THEN simpleSetDirection(g, TRUE)
       ELSE IF line.word \in BackwardWords THEN simpleSetDirection(g, FALSE)
       ELSE g
  ELSE IF line.verb = "SPEED" THEN simpleSetSpeed(g, Hz(line.value))
  ELSE IF line.verb = "STOP" THEN simpleStopMotor(g)
  ELSE IF line.verb = "CONFIG" THEN applyConfig(g, line.word, line.value)
  ELSE g

\* the elapsed times are followed only while the code reads them
Clock(g) ==
  [g EXCEPT !.rampElapsed = IF g.rampActive THEN @ ELSE 0,
            !.holdElapsed = IF g.inDirectionHold THEN @ ELSE 0]

\* the state loop() of the single-motor firmware starts from
simpleSetup == updateTimerInterval(Globals, Hz(1))

NoReversal == [phase |-> "none", freq |-> 0, stopped |-> FALSE]

\* no line has been read
NoLine == Line("", "", 0)

BootSimple ==
  /\ fw = simpleSetup
  /\ simCommands = 0
  /\ commanded = 0
  /\ reversal = NoReversal
  /\ lastLine = NoLine

\* ------------------------------------------------------ serial port
\* nothing has arrived, inputBuffer is "" as its initialiser leaves it
NoSerial ==
  [rx |-> << >>, inputBuffer |-> << >>, sent |-> << >>, dispatched |-> << >>]

\* ------------------------------------------------------------- calls
Call(op, m, arg) == [op |-> op, m |-> m, arg |-> arg]

BootCtl ==
  /\ sinceAccel = 0
  /\ loopPos = "serial"
  /\ script = << >>
  /\ wait = "none"
  /\ originalTarget = 0
  /\ stopElapsed = 0
  /\ speedReq = [i \in Motors |-> {}]
  /\ boostReq = [i \in Motors |-> {}]
  /\ tickRest = << >>
  /\ report = << >>
  /\ zeroReq = FALSE
  /\ estopReq = FALSE
  /\ posRead = [i \in Motors |-> 0]
  /\ advisory = FALSE
  /\ reply = ""
  /\ serial = NoSerial
  /\ BootSimple

BootRest ==
  /\ BootCtl
  /\ position = [i \in Motors |-> 0]

\* The state loop() starts from: setup() has run (its LED blinking alone
\* takes SETUP_TIME ms, and boostStartTime is 0), with the boost
\* configuration cfg.
Boot(cfg) ==
  /\ motor = [i \in Motors |->
                InitMotor(Min(SETUP_TIME, ElapsedCap(cfg)))]
  /\ boostConfig = cfg
  /\ BootRest

DefaultConfig == [multiplier |-> BOOST_MULTIPLIER,
                  duration |-> BOOST_DURATION, enabled |-> TRUE]

\* The motors as setup() leaves them, under a boost configuration that a
\* CONFIG:BOOST command has stored.
Init ==
  /\ \E cfg \in ConfigArgs : Boot(cfg)
  /\ commands = 0

\* ------------------------------------------------------------ processCommand
\* loop() takes a command only at its serial check; after processCommand it
\* goes on to the control-tick check of the same iteration.
CanDispatch ==
  /\ commands < MaxCommands
  /\ script = << >>
  /\ tickRest = << >>
  /\ loopPos = "serial" \/ sinceAccel < accelUpdateInterval

Dispatch(calls) ==
  /\ commands' = commands + 1
  /\ script' = calls
  /\ loopPos' = "accel"
  /\ UNCHANGED << motor, boostConfig, sinceAccel, wait, originalTarget,
                  stopElapsed, position, tickRest, readVars >>

NoReq == [i \in Motors |-> {}]

CmdSpeed(v) ==
  /\ CanDispatch
  /\ zeroReq' = FALSE
  /\ estopReq' = FALSE
  /\ UNCHANGED << simpleVars, serial >>
  /\ UNCHANGED report
  /\ Dispatch(<< Call("setSpeed", 1, v), Call("setSpeed", 2, v) >>)
  /\ speedReq' = [i \in Motors |-> {v}]
  /\ boostReq' = NoReq

CmdDirection(d) ==
  /\ CanDispatch
  /\ zeroReq' = FALSE
  /\ estopReq' = FALSE
  /\ UNCHANGED << simpleVars, serial >>
  /\ UNCHANGED report
  /\ Dispatch(<< Call("setDirection", 1, d), Call("setDirection", 2, d) >>)
  /\ speedReq' = NoReq
  /\ UNCHANGED boostReq

CmdStop ==
  /\ CanDispatch
  /\ zeroReq' = FALSE
  /\ estopReq' = FALSE
  /\ UNCHANGED << simpleVars, serial >>
  /\ UNCHANGED report
  /\ Dispatch(<< Call("stopMotor", 1, 0), Call("stopMotor", 2, 0) >>)
  /\ speedReq' = NoReq
  /\ boostReq' = NoReq

CmdEstop ==
  /\ CanDispatch
  /\ zeroReq' = FALSE
  /\ estopReq' = FALSE
  /\ UNCHANGED << simpleVars, serial >>
  /\ UNCHANGED report
  /\ Dispatch(<< Call("emergencyStop", 0, 0) >>)
  /\ speedReq' = NoReq
  /\ boostReq' = NoReq

CmdRun ==
  /\ CanDispatch
  /\ zeroReq' = FALSE
  /\ UNCHANGED << report, estopReq, simpleVars, serial >>
  /\ Dispatch(<< Call("run", 1, 0), Call("run", 2, 0) >>)
  /\ speedReq' = NoReq
  /\ UNCHANGED boostReq

CmdSpin(dd, v) ==
  /\ CanDispatch
  /\ zeroReq' = FALSE
  /\ estopReq' = FALSE
  /\ UNCHANGED << simpleVars, serial >>
  /\ UNCHANGED report
  /\ Dispatch(<< Call("setDirection", 1, dd[1]), Call("setDirection", 2, dd[2]),
                 Call("setSpeed", 1, v), Call("setSpeed", 2, v),
                 Call("run", 1, 0), Call("run", 2, 0) >>)
  /\ speedReq' = NoReq
  /\ boostReq' = NoReq

CmdBoost(dd, v) ==
  /\ CanDispatch
  /\ zeroReq' = FALSE
  /\ estopReq' = FALSE
  /\ UNCHANGED << simpleVars, serial >>
  /\ UNCHANGED report
  /\ Dispatch(<< Call("setDirection", 1, dd[1]), Call("setDirection", 2, dd[2]),
                 Call("applyBoost", 1, v), Call("applyBoost", 2, v),
                 Call("run", 1, 0), Call("run", 2, 0) >>)
  /\ speedReq' = NoReq
  /\ boostReq' = NoReq

CmdConfig(c) ==
  /\ CanDispatch
  /\ boostConfig' = [c EXCEPT !.duration = Uint16(c.duration)]
  /\ commands' = commands + 1
  /\ loopPos' = "accel"
  /\ speedReq' = NoReq
  /\ zeroReq' = FALSE
  /\ estopReq' = FALSE
  /\ UNCHANGED << simpleVars, serial >>
  /\ UNCHANGED << motor, sinceAccel, script, wait, originalTarget, stopElapsed,
                  boostReq, stepVars >>

\* --------------------------------------------------- the calls of a command
ThisCall == Head(script)
AtCall(op) == script # << >> /\ wait = "none" /\ ThisCall.op = op
Return == script' = Tail(script)

DoSetSpeed ==
  /\ AtCall("setSpeed")
  /\ motor' = [motor EXCEPT ![ThisCall.m] = setSpeed(@, ThisCall.arg)]
  /\ Return
  /\ UNCHANGED << stepVars, zeroReq, estopReq, simpleVars, serial, commands, boostConfig,
                  sinceAccel, loopPos, wait, originalTarget,
                  stopElapsed, speedReq, boostReq >>

DoRun ==
  /\ AtCall("run")
  /\ motor' = [motor EXCEPT ![ThisCall.m].isRunning = TRUE]
  /\ Return
  /\ UNCHANGED << stepVars, zeroReq, estopReq, simpleVars, serial, commands, boostConfig,
                  sinceAccel, loopPos, wait, originalTarget,
                  stopElapsed, speedReq, boostReq >>

DoApplyBoost ==
  /\ AtCall("applyBoost")
  /\ motor' = [motor EXCEPT ![ThisCall.m] = applyBoost(@, ThisCall.arg, boostConfig)]
  /\ boostReq' = IF boostConfig.enabled
                 THEN [boostReq EXCEPT ![ThisCall.m] = {ThisCall.arg}]
                 ELSE boostReq
  /\ Return
  /\ UNCHANGED << stepVars, zeroReq, estopReq, simpleVars, serial, commands, boostConfig,
                  sinceAccel, loopPos, wait, originalTarget,
                  stopElapsed, speedReq >>

\* delay(accelUpdateInterval) inside a busy-wait
Delayed(mt) == Advance(mt, boostConfig, accelUpdateInterval)

newDir(dir) == IF dir >= 0 THEN 1 ELSE -1
commitDirection(m, d) == [m EXCEPT !.direction = d, !.dirPin = DirLevel(d)]
DirGated(m, d) == d # m.direction /\ m.currentSpeed > DIR_HIGH_THRESHOLD

\* setDirection up to its first loop test, or to its end when not gated
DoSetDirection ==
  /\ AtCall("setDirection")
  /\ LET m == motor[ThisCall.m]
         d == newDir(ThisCall.arg)
     IN IF DirGated(m, d)
        THEN /\ originalTarget' = m.targetSpeed
             /\ motor' = [motor EXCEPT ![ThisCall.m].targetSpeed = DIR_SAFE_SPEED]
             /\ wait' = "dir"
             /\ UNCHANGED script
        ELSE /\ motor' = [motor EXCEPT ![ThisCall.m] = commitDirection(@, d)]
             /\ Return
             /\ UNCHANGED << wait, originalTarget >>
  /\ UNCHANGED << stepVars, zeroReq, estopReq, simpleVars, serial, commands, boostConfig,
                  sinceAccel, loopPos, stopElapsed, speedReq,
                  boostReq >>

DirWaitCond(m) == m.currentSpeed > DIR_LOW_THRESHOLD

\* one iteration of while (m.currentSpeed > 300)
DirWaitIter ==
  /\ wait = "dir"
  /\ DirWaitCond(motor[ThisCall.m])
  /\ motor' = Delayed([motor EXCEPT ![ThisCall.m] = updateSpeed(@, boostConfig)])
  /\ sinceAccel' = accelUpdateInterval
  /\ UNCHANGED << stepVars, zeroReq, estopReq, simpleVars, serial, commands, boostConfig,
                  loopPos, script, wait, originalTarget,
                  stopElapsed, speedReq, boostReq >>

\* the loop is left: direction and pin change, the target is restored
DirWaitExit ==
  /\ wait = "dir"
  /\ ~DirWaitCond(motor[ThisCall.m])
  /\ motor' = [motor EXCEPT ![ThisCall.m] =
                 [commitDirection(@, newDir(ThisCall.arg))
                    EXCEPT !.targetSpeed = originalTarget]]
  /\ wait' = "none"
  /\ originalTarget' = 0
  /\ Return
  /\ UNCHANGED << stepVars, zeroReq, estopReq, simpleVars, serial, commands, boostConfig,
                  sinceAccel, loopPos, stopElapsed,
                  speedReq, boostReq >>

StopWaitCond(m) == m.currentSpeed > STOP_THRESHOLD

\* stopMotor up to its first loop test
DoStopMotor ==
  /\ AtCall("stopMotor")
  /\ motor' = [motor EXCEPT ![ThisCall.m].targetSpeed = 0]
  /\ wait' = "stop"
  /\ UNCHANGED << stepVars, zeroReq, estopReq, simpleVars, serial, commands, boostConfig,
                  sinceAccel, loopPos, script, originalTarget,
                  stopElapsed, speedReq, boostReq >>

\* one iteration of while (m.currentSpeed > 1)
StopWaitIter ==
  /\ wait = "stop"
  /\ StopWaitCond(motor[ThisCall.m])
  /\ motor' = Delayed([motor EXCEPT ![ThisCall.m] = updateSpeed(@, boostConfig)])
  /\ sinceAccel' = accelUpdateInterval
  /\ UNCHANGED << stepVars, zeroReq, estopReq, simpleVars, serial, commands, boostConfig,
                  loopPos, script, wait, originalTarget,
                  stopElapsed, speedReq, boostReq >>

stopped(m) == [timerEnd(m) EXCEPT !.isRunning = FALSE, !.currentSpeed = 0]

StopWaitExit ==
  /\ wait = "stop"
  /\ ~StopWaitCond(motor[ThisCall.m])
  /\ motor' = [motor EXCEPT ![ThisCall.m] = stopped(@)]
  /\ wait' = "none"
  /\ Return
  /\ UNCHANGED << stepVars, zeroReq, estopReq, simpleVars, serial, commands, boostConfig,
                  sinceAccel, loopPos, originalTarget,
                  stopElapsed, speedReq, boostReq >>

\* the emergency-stop loop test without its deadline
EstopWaitCondNoDeadline(mt, elapsed) ==
  mt[1].currentSpeed > STOP_THRESHOLD \/ mt[2].currentSpeed > STOP_THRESHOLD

EstopWaitCond(mt, elapsed) ==
  /\ mt[1].currentSpeed > STOP_THRESHOLD \/ mt[2].currentSpeed > STOP_THRESHOLD
  /\ elapsed < ESTOP_TIMEOUT

\* emergencyStop up to its first loop test
DoEmergencyStop ==
  /\ AtCall("emergencyStop")
  /\ motor' = [i \in Motors |-> [motor[i] EXCEPT !.targetSpeed = 0]]
  /\ stopElapsed' = 0
  /\ wait' = "estop"
  /\ UNCHANGED << stepVars, zeroReq, estopReq, simpleVars, serial, commands, boostConfig,
                  sinceAccel, loopPos, script, originalTarget,
                  speedReq, boostReq >>

EstopWaitIter ==
  /\ wait = "estop"
  /\ EstopWaitCond(motor, stopElapsed)
  /\ motor' = Delayed([i \in Motors |-> updateSpeed(motor[i], boostConfig)])
  /\ stopElapsed' = Min(stopElapsed + accelUpdateInterval, StopElapsedCap)
  /\ sinceAccel' = accelUpdateInterval
  /\ UNCHANGED << stepVars, zeroReq, estopReq, simpleVars, serial, commands, boostConfig,
                  loopPos, script, wait, originalTarget,
                  speedReq, boostReq >>

forcedStop(m) == [stopped(m) EXCEPT !.stepPin = "LOW"]

EstopWaitExit ==
  /\ wait = "estop"
  /\ ~EstopWaitCond(motor, stopElapsed)
  /\ motor' = [i \in Motors |-> forcedStop(motor[i])]
  /\ wait' = "none"
  /\ stopElapsed' = 0
  /\ Return
  /\ estopReq' = TRUE
  /\ UNCHANGED << simpleVars, serial >>
  /\ UNCHANGED << stepVars, zeroReq, commands, boostConfig,
                  sinceAccel, loopPos, originalTarget,
                  speedReq, boostReq >>

\* ---------------------------------------------------------------- loop()
\* loop() spins without a command until the next control tick is due
Elapse ==
  /\ script = << >>
  /\ tickRest = << >>
  /\ sinceAccel < accelUpdateInterval
  /\ motor' = Advance(motor, boostConfig, accelUpdateInterval)
  /\ sinceAccel' = accelUpdateInterval
  /\ loopPos' = "serial"
  /\ UNCHANGED << stepVars, zeroReq, estopReq, simpleVars, serial, commands, boostConfig,
                  script, wait, originalTarget, stopElapsed,
                  speedReq, boostReq >>

\* the control tick: updateSpeed on both motors, then updateTimers
tick(m, cfg) == updateTimer(updateSpeed(m, cfg))

ControlTick ==
  /\ script = << >>
  /\ tickRest = << >>
  /\ sinceAccel >= accelUpdateInterval
  /\ motor' = [i \in Motors |-> tick(motor[i], boostConfig)]
  /\ sinceAccel' = 0
  /\ loopPos' = "serial"
  /\ UNCHANGED << stepVars, zeroReq, estopReq, simpleVars, serial, commands, boostConfig,
                  script, wait, originalTarget, stopElapsed,
                  speedReq, boostReq >>

Command(speeds, boosts, configs) ==
  \/ \E v \in speeds : CmdSpeed(v)
  \/ \E d \in {1, -1} : CmdDirection(d)
  \/ CmdStop
  \/ CmdEstop
  \/ CmdRun
  \/ \E dd \in SpinDirs, v \in speeds : CmdSpin(dd, v)
  \/ \E dd \in BoostDirs, v \in boosts : CmdBoost(dd, v)
  \/ \E c \in configs : CmdConfig(c)

\* processCommand going on with the command it was given
Calls ==
  \/ DoSetSpeed
  \/ DoRun
  \/ DoApplyBoost
  \/ DoSetDirection
  \/ DirWaitIter
  \/ DirWaitExit
  \/ DoStopMotor
  \/ StopWaitIter
  \/ StopWaitExit
  \/ DoEmergencyStop
  \/ EstopWaitIter
  \/ EstopWaitExit

Loop ==
  \/ Elapse
  \/ ControlTick

Next ==
  \/ Command(SpeedArgs, BoostArgs, ConfigArgs)
  \/ Calls
  \/ Loop

Spec == Init /\ [][Next]_vars

\* Runs that start with both motors cruising at MAX_SPEED (the state a
\* SPEED:20000 command leaves once its ramp is complete) and take one more
\* command, with arguments above MAX_SPEED and a multiplier of 100.
cruising(m, c) ==
  [m EXCEPT !.currentSpeed = c, !.targetSpeed = c, !.isRunning = TRUE,
            !.timer = c]

InitHigh ==
  /\ \E cfg \in HighConfigArgs :
       /\ motor = [i \in Motors |->
                     cruising(InitMotor(ElapsedCap(cfg)), MAX_SPEED)]
       /\ boostConfig = cfg
  /\ BootRest
  /\ commands = MaxCommands - 1

NextHigh ==
  \/ Command(HighSpeedArgs, HighBoostArgs,
             HighConfigArgs \cup WildConfigArgs)
  \/ Calls
  \/ Loop

SpecHigh == InitHigh /\ [][NextHigh]_vars

\* The run of the boost-shape test: the firmware as setup() leaves it, with
\* the default boost configuration, given BOOST:FORWARD:2000 and nothing else.
SHAPE_SPEED == Sps(2000)

InitShape ==
  /\ Boot(DefaultConfig)
  /\ commands = MaxCommands - 1

NextShape ==
  \/ CmdBoost(<<1, 1>>, SHAPE_SPEED)
  \/ DoSetDirection
  \/ DoApplyBoost
  \/ DoRun
  \/ Loop

SpecShape == InitShape /\ [][NextShape]_vars

\* ------------------------------------------- step ISRs, SYNC, RESET, STATUS
\* SYNC zeroing the two counters with the interrupts left enabled
SyncCallsUnmasked == << Call("syncZero", 1, 0), Call("syncZero", 2, 0) >>

\* SYNC: both counters are zeroed between noInterrupts() and interrupts()
SyncCalls ==
  << Call("noInterrupts", 0, 0), Call("syncZero", 1, 0),
     Call("syncZero", 2, 0), Call("interrupts", 0, 0) >>

\* noInterrupts() has been called and the interrupts() that follows it has
\* not: a timer that fires is held pending
Masked ==
  /\ script # << >>
  /\ Head(script).op # "noInterrupts"
  /\ \E k \in 1..Len(script) : script[k].op = "interrupts"

CmdSync ==
  /\ CanDispatch
  /\ Dispatch(SyncCalls)
  /\ zeroReq' = TRUE
  /\ estopReq' = FALSE
  /\ UNCHANGED << simpleVars, serial >>
  /\ speedReq' = NoReq
  /\ UNCHANGED << boostReq, report >>

\* RESET for both motors: the counters are zeroed, then each motor is stopped
CmdReset ==
  /\ CanDispatch
  /\ Dispatch(<< Call("zeroPosition", 1, 0), Call("zeroPosition", 2, 0),
                 Call("stopMotor", 1, 0), Call("stopMotor", 2, 0) >>)
  /\ zeroReq' = TRUE
  /\ estopReq' = FALSE
  /\ UNCHANGED << simpleVars, serial >>
  /\ speedReq' = NoReq
  /\ boostReq' = NoReq
  /\ UNCHANGED report

\* abs(motor1.position - motor2.position): the two volatile counters are
\* loaded one after the other, motor a's first; the order of the two
\* operands' evaluation is the compiler's choice.
DriftLoads(a) ==
  << Call("readPosition", a, 0), Call("readPosition", 3 - a, 0) >>

\* STATUS: printStatus prints motor 1's position, motor 2's position and
\* then the drift computed from a fresh read of both
CmdStatus ==
  /\ CanDispatch
  /\ \E a \in Motors :
       Dispatch(<< Call("printPosition", 1, 0), Call("printPosition", 2, 0) >>
                \o DriftLoads(a) \o << Call("printDrift", 0, 0) >>)
  /\ report' = << >>
  /\ speedReq' = NoReq
  /\ UNCHANGED << boostReq, zeroReq, estopReq, simpleVars, serial >>

DoNoInterrupts ==
  /\ AtCall("noInterrupts")
  /\ Return
  /\ UNCHANGED << motor, boostConfig, sinceAccel, loopPos, wait, originalTarget,
                  stopElapsed, speedReq, boostReq, commands, tickRest, report,
                  zeroReq, estopReq, simpleVars, serial, readVars, position >>

DoInterrupts ==
  /\ AtCall("interrupts")
  /\ Return
  /\ UNCHANGED << motor, boostConfig, sinceAccel, loopPos, wait, originalTarget,
                  stopElapsed, speedReq, boostReq, commands, tickRest, report,
                  zeroReq, estopReq, simpleVars, serial, readVars, position >>

\* one of SYNC's two writes, motor1.position = 0 or motor2.position = 0
DoSync ==
  /\ AtCall("syncZero")
  /\ position' = [position EXCEPT ![ThisCall.m] = 0]
  /\ Return
  /\ UNCHANGED << motor, boostConfig, sinceAccel, loopPos, wait, originalTarget,
                  stopElapsed, speedReq, boostReq, commands, tickRest, report,
                  zeroReq, estopReq, simpleVars, serial, readVars >>

DoZeroPosition ==
  /\ AtCall("zeroPosition")
  /\ position' = [position EXCEPT ![ThisCall.m] = 0]
  /\ Return
  /\ UNCHANGED << motor, boostConfig, sinceAccel, loopPos, wait, originalTarget,
                  stopElapsed, speedReq, boostReq, commands, tickRest, report,
                  zeroReq, estopReq, simpleVars, serial, readVars >>

DoPrintPosition ==
  /\ AtCall("printPosition")
  /\ report' = Append(report, position[ThisCall.m])
  /\ Return
  /\ UNCHANGED << motor, boostConfig, sinceAccel, loopPos, wait, originalTarget,
                  stopElapsed, speedReq, boostReq, commands, tickRest, position,
                  zeroReq, estopReq, simpleVars, serial, readVars >>

\* one load of a position counter for a drift computation
DoReadPosition ==
  /\ AtCall("readPosition")
  /\ posRead' = [posRead EXCEPT ![ThisCall.m] = position[ThisCall.m]]
  /\ Return
  /\ UNCHANGED << motor, boostConfig, sinceAccel, loopPos, wait, originalTarget,
                  stopElapsed, speedReq, boostReq, commands, tickRest, position,
                  report, zeroReq, estopReq, simpleVars, serial, advisory, reply >>

posDiff == Abs(posRead[1] - posRead[2])

DoPrintDrift ==
  /\ AtCall("printDrift")
  /\ report' = Append(report, posDiff)
  /\ zeroReq' = FALSE
  /\ UNCHANGED << estopReq, simpleVars, serial >>
  /\ Return
  /\ UNCHANGED << motor, boostConfig, sinceAccel, loopPos, wait, originalTarget,
                  stopElapsed, speedReq, boostReq, commands, tickRest, position,
                  readVars >>

\* checkSync's test with isRunning of both motors required
SyncAlertBothRunning(diff, running1, running2) ==
  diff > SYNC_THRESHOLD /\ (running1 /\ running2)

\* checkSync's test: the drift alert is printed
SyncAlert(diff, running1, running2) ==
  diff > SYNC_THRESHOLD /\ (running1 \/ running2)

\* loop() calls checkSync once SYNC_CHECK_INTERVAL ms have passed since
\* lastSyncCheck; lastSyncCheck is not followed, so the call is taken at
\* iterations of loop() the model leaves open.
CheckSync ==
  /\ script = << >>
  /\ tickRest = << >>
  /\ \E a \in Motors :
       script' = DriftLoads(a) \o << Call("syncTest", 0, 0) >>
  /\ UNCHANGED << motor, boostConfig, sinceAccel, loopPos, wait, originalTarget,
                  stopElapsed, speedReq, boostReq, commands, zeroReq, estopReq, simpleVars, serial,
                  stepVars >>

DoSyncTest ==
  /\ AtCall("syncTest")
  /\ advisory' = SyncAlert(posDiff, motor[1].isRunning, motor[2].isRunning)
  /\ Return
  /\ UNCHANGED << motor, boostConfig, sinceAccel, loopPos, wait, originalTarget,
                  stopElapsed, speedReq, boostReq, commands, tickRest, position,
                  report, zeroReq, estopReq, simpleVars, serial, posRead, reply >>

\* the step counters are followed near 0 and near SYNC_THRESHOLD
Followed(p) == \E c \in {0, SYNC_THRESHOLD} : Abs(p - c) <= MaxPosition

\* a step ISR counting up whatever the direction
StepISRForward(i) ==
  /\ PeriodElapsed(motor[i])
  /\ ~Masked
  /\ Followed(position[i] + 1)
  /\ position' = [position EXCEPT ![i] = @ + 1]
  /\ UNCHANGED << motor, boostConfig, sinceAccel, loopPos, script, wait,
                  originalTarget, stopElapsed, speedReq, boostReq, commands,
                  tickRest, report, zeroReq, estopReq, simpleVars, serial, readVars >>

\* stepISR_M1 / stepISR_M2: one pulse on the step pin (HIGH, 5 us, LOW) and
\* position += direction.  The timer fires once a period has elapsed since
\* timer.begin, and from then on at moments the model leaves open, but
\* not while interrupts are masked, which only SYNC does.
StepISR(i) ==
  /\ PeriodElapsed(motor[i])
  /\ ~Masked
  /\ Followed(position[i] + motor[i].direction)
  /\ position' = [position EXCEPT ![i] = @ + motor[i].direction]
  /\ UNCHANGED << motor, boostConfig, sinceAccel, loopPos, script, wait,
                  originalTarget, stopElapsed, speedReq, boostReq, commands,
                  tickRest, report, zeroReq, estopReq, simpleVars, serial, readVars >>

\* The control tick of loop() step by step: the calls made inside
\* if (millis() - lastAccelUpdate >= accelUpdateInterval), in their order;
\* updateTimers is its motor 1 half followed by its motor 2 half.
TickStepsInterleaved ==
  << Call("updateSpeed", 1, 0), Call("updateTimer", 1, 0),
     Call("updateSpeed", 2, 0), Call("updateTimer", 2, 0) >>

TickSteps ==
  << Call("updateSpeed", 1, 0), Call("updateSpeed", 2, 0),
     Call("updateTimer", 1, 0), Call("updateTimer", 2, 0) >>

TickBegin ==
  /\ script = << >>
  /\ tickRest = << >>
  /\ sinceAccel >= accelUpdateInterval
  /\ tickRest' = TickSteps
  /\ UNCHANGED << motor, boostConfig, sinceAccel, loopPos, script, wait,
                  originalTarget, stopElapsed, speedReq, boostReq, commands,
                  position, report, zeroReq, estopReq, simpleVars, serial, readVars >>

ThisStep == Head(tickRest)
AtStep(op) == tickRest # << >> /\ ThisStep.op = op

\* the last step of the tick is followed by lastAccelUpdate = millis()
TickEnd ==
  /\ tickRest' = Tail(tickRest)
  /\ IF Tail(tickRest) = << >>
     THEN sinceAccel' = 0 /\ loopPos' = "serial"
     ELSE UNCHANGED << sinceAccel, loopPos >>
  /\ UNCHANGED << boostConfig, script, wait, originalTarget, stopElapsed,
                  speedReq, boostReq, commands, position, report, zeroReq,
                  estopReq, simpleVars, serial,
                  readVars >>

TickUpdateSpeed ==
  /\ AtStep("updateSpeed")
  /\ motor' = [motor EXCEPT ![ThisStep.m] = updateSpeed(@, boostConfig)]
  /\ TickEnd

TickUpdateTimer ==
  /\ AtStep("updateTimer")
  /\ motor' = [motor EXCEPT ![ThisStep.m] = updateTimer(@)]
  /\ TickEnd

\* ------------------------------------------------ processCommand's parser
\* A command line is given as its fields, the pieces between the colons,
\* after trim() and toUpperCase(): "M1:SPEED:800" is << "M1", "SPEED",
\* "800" >>.
RECURSIVE Join(_)
Join(fields) ==
  IF Len(fields) = 1 THEN fields[1]
  ELSE fields[1] \o ":" \o Join(Tail(fields))

\* cmd.startsWith("M1:") || cmd.startsWith("1:"), the same for motor 2;
\* 0 stands for targetMotor == nullptr
targetMotor(line) ==
  IF Len(line) > 1 /\ line[1] \in {"M1", "1"} THEN 1
  ELSE IF Len(line) > 1 /\ line[1] \in {"M2", "2"} THEN 2
  ELSE 0

\* cmd once the motor selector is cut off
Selected(line) == IF targetMotor(line) # 0 THEN Tail(line) ELSE line

\* separatorIndex > 0: there is a colon and it is not the first character
Separated(line) == Len(Selected(line)) > 1 /\ Selected(line)[1] # ""

Verb(line) ==
  IF Separated(line) THEN Selected(line)[1] ELSE Join(Selected(line))

\* the fields of value
Value(line) == IF Separated(line) THEN Tail(Selected(line)) ELSE << >>

\* toFloat() of the numerals the command lines of the model carry; a
\* string that starts with no number gives 0
Numeral ==
  ("0.5" :> Sps(1) \div 2) @@ ("100" :> Sps(100)) @@ ("200" :> Sps(200))
    @@ ("800" :> Sps(800))

toFloat(fields) ==
  IF fields # << >> /\ fields[1] \in DOMAIN Numeral
  THEN Numeral[fields[1]] ELSE 0

\* SPIN and BOOST: direction = value.substring(0, colonPos) and
\* speed = value.substring(colonPos + 1).toFloat(); without a colon both
\* are the whole value
DirWord(value) == IF value = << >> THEN "" ELSE value[1]
DirSpeed(value) ==
  IF Len(value) > 1 THEN toFloat(Tail(value)) ELSE toFloat(value)

\* the SPIN handler taking every word but LEFT for RIGHT
SpinDirOfDefault(word) ==
  IF word \in {"LEFT", "L"} THEN << -1, 1 >> ELSE << 1, -1 >>

\* the (motor 1, motor 2) directions of a SPIN direction word, << >> when
\* the word is none
SpinDirOf(word) ==
  IF word \in {"LEFT", "L"} THEN << -1, 1 >>
  ELSE IF word \in {"RIGHT", "R"} THEN << 1, -1 >>
  ELSE << >>

BoostDirOf(word) ==
  IF word \in {"LEFT", "L"} THEN << -1, 1 >>
  ELSE IF word \in {"RIGHT", "R"} THEN << 1, -1 >>
  ELSE IF word \in {"FORWARD", "F"} THEN << 1, 1 >>
  ELSE IF word \in {"BACKWARD", "B"} THEN << -1, -1 >>
  ELSE << >>

\* a handler's calls for the selected motor, or for both
ForTarget(t, op, arg) ==
  IF t # 0 THEN << Call(op, t, arg) >>
  ELSE << Call(op, 1, arg), Call(op, 2, arg) >>

Turn(dd, op, v) ==
  << Call("setDirection", 1, dd[1]), Call("setDirection", 2, dd[2]),
     Call(op, 1, v), Call(op, 2, v), Call("run", 1, 0), Call("run", 2, 0) >>

\* the calls processCommand makes for a line (a: the motor whose position
\* STATUS loads first for the drift)
Handler(line, a) ==
  LET t == targetMotor(line)
      verb == Verb(line)
      value == Value(line)
  IN IF verb \in {"SPEED", "S"}
       THEN ForTarget(t, "setSpeed", toFloat(value))
     ELSE IF verb \in {"FORWARD", "FWD", "F"}
       THEN ForTarget(t, "setDirection", 1)
     ELSE IF verb \in {"BACKWARD", "BACK", "B"}
       THEN ForTarget(t, "setDirection", -1)
     ELSE IF verb \in {"STOP", "X"}
       THEN ForTarget(t, "stopMotor", 0)
     ELSE IF verb \in {"ESTOP", "E"}
       THEN << Call("emergencyStop", 0, 0) >>
     ELSE IF verb \in {"RUN", "R"}
       THEN ForTarget(t, "run", 0)
     ELSE IF verb \in {"STATUS", "?"}
       THEN << Call("printPosition", 1, 0), Call("printPosition", 2, 0) >>
            \o DriftLoads(a) \o << Call("printDrift", 0, 0) >>
     ELSE IF verb \in {"RESET", "RST"}
       THEN ForTarget(t, "zeroPosition", 0) \o ForTarget(t, "stopMotor", 0)
     ELSE IF verb = "SPIN" /\ SpinDirOf(DirWord(value)) # << >>
       THEN Turn(SpinDirOf(DirWord(value)), "setSpeed", DirSpeed(value))
     ELSE IF verb = "BOOST" /\ BoostDirOf(DirWord(value)) # << >>
       THEN Turn(BoostDirOf(DirWord(value)), "applyBoost", DirSpeed(value))
     ELSE IF verb = "SYNC"
       THEN SyncCalls
     ELSE << >>

\* CONFIG: value.startsWith("BOOST:"), then multiplier (toFloat, here in
\* tenths), duration (toInt into a uint16_t) and enabled (toInt() == 1),
\* for a value that carries all three parameters
ConfigGiven(value) == Len(value) > 1 /\ value[1] = "BOOST"

Tenths == ("0.5" :> 5) @@ ("1.5" :> 15) @@ ("3.0" :> 30)
Whole == ("0" :> 0) @@ ("1" :> 1) @@ ("20" :> 20) @@ ("50" :> 50)

Field(value, k) == IF Len(value) >= k THEN value[k] ELSE ""
toTenths(s) == IF s \in DOMAIN Tenths THEN Tenths[s] ELSE 0
toInt(s) == IF s \in DOMAIN Whole THEN Whole[s] ELSE 0

ConfigOf(value) ==
  [multiplier |-> toTenths(Field(value, 2)),
   duration |-> Uint16(toInt(Field(value, 3))),
   enabled |-> toInt(Field(value, 4)) = 1]

KnownVerbs ==
  {"SPEED", "S", "FORWARD", "FWD", "F", "BACKWARD", "BACK", "B", "STOP", "X",
   "ESTOP", "E", "RUN", "R", "STATUS", "?", "RESET", "RST", "SPIN", "BOOST",
   "SYNC", "CONFIG"}

\* what the handler prints
Reply(line) ==
  LET verb == Verb(line)
      word == DirWord(Value(line))
  IN IF verb \notin KnownVerbs THEN "Unknown command"
     ELSE IF verb = "SPIN" /\ SpinDirOf(word) = << >>
       THEN "Invalid SPIN direction"
     ELSE IF verb = "BOOST" /\ BoostDirOf(word) = << >>
       THEN "Invalid BOOST direction"
     ELSE IF verb = "CONFIG" /\ ~ConfigGiven(Value(line))
       THEN "CONFIG:BOOST:multiplier:duration:enabled"
     ELSE "done"

\* processCommand on a text
processCommand(line) ==
  /\ CanDispatch
  /\ commands' = commands + 1
  /\ loopPos' = "accel"
  /\ \E a \in Motors : script' = Handler(line, a)
  /\ reply' = Reply(line)
  /\ boostConfig' = IF Verb(line) = "CONFIG" /\ ConfigGiven(Value(line))
                    THEN ConfigOf(Value(line)) ELSE boostConfig
  /\ report' = IF Verb(line) \in {"STATUS", "?"} THEN << >> ELSE report
  /\ zeroReq' = IF Verb(line) \in {"STATUS", "?"} THEN zeroReq
                ELSE \/ Verb(line) = "SYNC"
                     \/ Verb(line) \in {"RESET", "RST"} /\ targetMotor(line) = 0
  /\ estopReq' = (estopReq /\ Verb(line) \in {"RUN", "R", "STATUS", "?"})
  /\ UNCHANGED simpleVars
  /\ speedReq' = NoReq
  /\ boostReq' = NoReq
  /\ UNCHANGED << motor, sinceAccel, wait, originalTarget, stopElapsed,
                  position, tickRest, posRead, advisory >>

\* processCommand given a line of text, the serial port left aside
ProcessLine(line) == processCommand(line) /\ UNCHANGED serial

\* Runs in which processCommand is given lines of text: well-formed ones,
\* and lines with an unknown verb, an unknown motor selector or an unknown
\* SPIN or BOOST direction word.
GoodLines ==
  { << "SPEED", "800" >>, << "M1", "SPEED", "200" >>,
    << "SPIN", "LEFT", "200" >>,
    << "CONFIG", "BOOST", "0.5", "20", "1" >> }

BadLines ==
  { << "JUMP" >>, << "M3", "SPEED", "100" >>, << "SPIN", "UP", "100" >>,
    << "BOOST", "UP", "100" >> }

InitLine ==
  /\ Boot(DefaultConfig)
  /\ commands = 0

NextLine ==
  \/ \E line \in GoodLines \cup BadLines : ProcessLine(line)
  \/ DoSetSpeed
  \/ DoRun
  \/ DoSetDirection
  \/ DirWaitIter
  \/ DirWaitExit
  \/ Loop

SpecLine == InitLine /\ [][NextLine]_vars

\* ------------------------------------------------- loop()'s command intake
\* What arrives on the serial port is given in pieces: the text of a line,
\* as its fields, and the newline that ends it.
NL == << "\n" >>

\* inputBuffer += inChar for the characters of a text
Glue(buf, text) ==
  IF buf = << >> THEN text
  ELSE SubSeq(buf, 1, Len(buf) - 1) \o << buf[Len(buf)] \o text[1] >>
       \o Tail(text)

\* while (Serial.available()): everything that has arrived is read, starting
\* from inputBuffer buf and commandReady ready
RECURSIVE readSerial(_, _, _)
readSerial(rx, buf, ready) ==
  IF rx = << >> THEN [inputBuffer |-> buf, commandReady |-> ready]
  ELSE IF Head(rx) = NL
  THEN readSerial(Tail(rx), buf, ready \/ buf # << >>)
  ELSE readSerial(Tail(rx), Glue(buf, Head(rx)), ready)

\* the host sends a line; the port takes it at any moment, also while
\* processCommand is busy
HostSend(line) ==
  /\ Len(serial.sent) < MaxCommands
  /\ serial' = [serial EXCEPT !.rx = @ \o << line, NL >>,
                              !.sent = Append(@, line)]
  /\ UNCHANGED << motor, boostConfig, sinceAccel, loopPos, script, wait,
                  originalTarget, stopElapsed, speedReq, boostReq, commands,
                  position, tickRest, report, zeroReq, estopReq, posRead,
                  advisory, reply, simpleVars >>

\* loop() reads the port and, if (commandReady), calls processCommand and
\* clears inputBuffer and commandReady
Intake ==
  /\ serial.rx # << >>
  /\ LET r == readSerial(serial.rx, serial.inputBuffer, FALSE)
     IN IF r.commandReady
        THEN /\ processCommand(r.inputBuffer)
             /\ serial' = [serial EXCEPT !.rx = << >>,
                                         !.inputBuffer = << >>,
                                         !.dispatched =
                                           Append(@, r.inputBuffer)]
        ELSE /\ script = << >>
             /\ loopPos = "serial"
             /\ serial' = [serial EXCEPT !.rx = << >>,
                                         !.inputBuffer = r.inputBuffer]
             /\ UNCHANGED << motor, boostConfig, sinceAccel, loopPos,
                             script, wait, originalTarget, stopElapsed,
                             speedReq, boostReq, commands, position,
                             tickRest, report, zeroReq, estopReq, posRead,
                             advisory, reply, simpleVars >>

\* Runs of the command intake.  They start with both motors cruising at
\* 800 step/s (the state a SPEED:800 command leaves once its ramp is
\* complete), so that STOP and BACKWARD block in their busy-waits.
IntakeLines == { << "STOP" >>, << "BACKWARD" >>, << "RUN" >> }

InitIntake ==
  /\ motor = [i \in Motors |->
                cruising(InitMotor(ElapsedCap(DefaultConfig)), Sps(800))]
  /\ boostConfig = DefaultConfig
  /\ BootRest
  /\ commands = 0

NextIntake ==
  \/ \E line \in IntakeLines : HostSend(line)
  \/ Intake
  \/ DoSetDirection
  \/ DirWaitIter
  \/ DirWaitExit
  \/ DoStopMotor
  \/ StopWaitIter
  \/ StopWaitExit
  \/ DoRun
  \/ Loop

SpecIntake == InitIntake /\ [][NextIntake]_vars

\* Runs with the step ISRs and the split control tick, under SPEED, SYNC,
\* RESET and STATUS commands.
StepSpeedArgs == {Sps(800)}

NextStep ==
  \/ \E v \in StepSpeedArgs : CmdSpeed(v)
  \/ CmdSync
  \/ CmdReset
  \/ CmdStatus
  \/ DoSetSpeed
  \/ DoNoInterrupts
  \/ DoSync
  \/ DoInterrupts
  \/ DoZeroPosition
  \/ DoStopMotor
  \/ StopWaitIter
  \/ StopWaitExit
  \/ DoPrintPosition
  \/ DoReadPosition
  \/ DoPrintDrift
  \/ \E i \in Motors : StepISR(i)
  \/ Elapse
  \/ TickBegin
  \/ TickUpdateSpeed
  \/ TickUpdateTimer

\* setup() has run and CONFIG:BOOST:1.5:<MaxDuration>:1 has been stored
InitStep ==
  /\ Boot([DefaultConfig EXCEPT !.duration = MaxDuration])
  /\ commands = 0

SpecStep == InitStep /\ [][NextStep]_vars

\* Runs with the step ISRs counting in both directions, under SPEED,
\* BACKWARD, SYNC and RESET commands.
NextBack ==
  \/ \E v \in StepSpeedArgs : CmdSpeed(v)
  \/ CmdDirection(-1)
  \/ CmdSync
  \/ CmdReset
  \/ DoSetSpeed
  \/ DoSetDirection
  \/ DirWaitIter
  \/ DirWaitExit
  \/ DoNoInterrupts
  \/ DoSync
  \/ DoInterrupts
  \/ DoZeroPosition
  \/ DoStopMotor
  \/ StopWaitIter
  \/ StopWaitExit
  \/ \E i \in Motors : StepISR(i)
  \/ Loop

SpecBack == InitStep /\ [][NextBack]_vars

\* Runs in which the host sends both-motor SPEED, RUN, FORWARD, BACKWARD and
\* STOP commands only, from the state setup() leaves.
InitPair ==
  /\ Boot(DefaultConfig)
  /\ commands = 0

NextPair ==
  \/ \E v \in SpeedArgs : CmdSpeed(v)
  \/ \E d \in {1, -1} : CmdDirection(d)
  \/ CmdStop
  \/ CmdRun
  \/ DoSetSpeed
  \/ DoRun
  \/ DoSetDirection
  \/ DirWaitIter
  \/ DirWaitExit
  \/ DoStopMotor
  \/ StopWaitIter
  \/ StopWaitExit
  \/ Loop

SpecPair == InitPair /\ [][NextPair]_vars

\* Runs under SPEED:0.5, SPEED:200 and STOP from the state setup() leaves:
\* toFloat() yields the fraction as it stands.
SlowSpeedArgs == {Sps(1) \div 2, Sps(200)}

\* the timer period in microseconds that updateTimers computes for a rate
PeriodUs(rate) == (1000000 * SpeedScale) \div rate

InitSlow ==
  /\ Boot(DefaultConfig)
  /\ commands = 0

NextSlow ==
  \/ \E v \in SlowSpeedArgs : CmdSpeed(v)
  \/ CmdStop
  \/ DoSetSpeed
  \/ DoStopMotor
  \/ StopWaitIter
  \/ StopWaitExit
  \/ Loop

SpecSlow == InitSlow /\ [][NextSlow]_vars

\* Runs under SPEED:50 and SPEED:200 from the state setup() leaves, with the
\* step ISRs counting.  At 50 step/s the timer period is 20 ms, twice the
\* control tick.  loop() keeps being called, processCommand goes on with
\* its calls, and a timer whose period has elapsed interrupts.
CrawlSpeedArgs == {Sps(50), Sps(200)}

NextCrawl ==
  \/ \E v \in CrawlSpeedArgs : CmdSpeed(v)
  \/ DoSetSpeed
  \/ \E i \in Motors : StepISR(i)
  \/ Loop

SpecCrawl ==
  /\ InitSlow
  /\ [][NextCrawl]_vars
  /\ WF_vars(Loop)
  /\ WF_vars(DoSetSpeed)
  /\ \A i \in Motors : SF_vars(StepISR(i))

\* Runs of the drift check.  They start in states that single-motor
\* commands (M1:SPEED:200, M1:STOP, ...) bring about: each motor stopped
\* or cruising at 200 step/s, motor 1 ahead of motor 2 by 0 or by
\* SYNC_THRESHOLD steps.
SyncRate == Sps(200)

InitSync ==
  /\ \E running \in [Motors -> BOOLEAN], p \in {0, SYNC_THRESHOLD} :
       /\ motor = [i \in Motors |->
                     LET m == InitMotor(ElapsedCap(DefaultConfig))
                     IN IF running[i] THEN cruising(m, SyncRate) ELSE m]
       /\ position = << p, 0 >>
  /\ boostConfig = DefaultConfig
  /\ BootCtl
  /\ commands = 0

NextSync ==
  \/ CheckSync
  \/ DoReadPosition
  \/ DoSyncTest
  \/ CmdStatus
  \/ DoPrintPosition
  \/ DoPrintDrift
  \/ \E i \in Motors : StepISR(i)
  \/ Loop

SpecSync == InitSync /\ [][NextSync]_vars

\* ------------------------------------- single-motor firmware: loop()
\* millis() advances by MillisStep
Millis ==
  /\ fw' = [fw EXCEPT !.rampElapsed =
                        IF fw.rampActive
                        THEN Min(@ + MillisStep, fw.rampDurationMs) ELSE @,
                      !.holdElapsed =
                        IF fw.inDirectionHold
                        THEN Min(@ + MillisStep, HOLD_MAX) ELSE @]
  /\ UNCHANGED << simCommands, commanded, reversal, lastLine, dualVars >>

\* the timer interrupts loop() and runs stepISR; the steps are counted up to
\* MaxSteps
StepTimer ==
  /\ stepISR(fw).stepsExecuted <= MaxSteps
  /\ fw' = stepISR(fw)
  /\ UNCHANGED << simCommands, commanded, reversal, lastLine, dualVars >>

\* what loop() does after its command branch
loopRest(g) == Clock(handleDirectionChange(updateRamp(g)))

\* the request a command line leaves to follow
Requested(g, line) ==
  IF /\ line.verb = "DIR"
     /\ line.word \in (IF g.curDirFwd THEN BackwardWords ELSE ForwardWords)
  THEN [phase |-> "pending",
        freq |-> IF g.currentFreq = commanded /\ ~g.rampActive
                 THEN commanded ELSE 0,
        stopped |-> g.currentFreq = 0 /\ ~g.pulseEnable /\ ~g.rampActive]
  ELSE NoReversal

\* the followed request after an iteration of loop() took g to h
Progress(r, g, h) ==
  IF r.phase = "pending" /\ h.curDirFwd # g.curDirFwd
  THEN [r EXCEPT !.phase = "committed"]
  ELSE r

\* an iteration of loop() with nothing on the serial port
loopIdle ==
  /\ fw' = loopRest(fw)
  /\ reversal' = Progress(reversal, fw, fw')
  /\ UNCHANGED << simCommands, commanded, lastLine, dualVars >>

\* an iteration of loop() that reads the command line
loopLine(line) ==
  /\ simCommands < SimMaxCommands
  /\ simCommands' = simCommands + 1
  /\ fw' = loopRest(serialCommand(fw, line))
  /\ commanded' = IF line.verb = "SPEED"
                  THEN speedTarget(fw, Hz(line.value))
                  ELSE IF line.verb = "STOP" THEN 0 ELSE commanded
  /\ reversal' = Progress(Requested(fw, line), fw, fw')
  /\ lastLine' = line
  /\ UNCHANGED dualVars

SimpleLines ==
  { Line("DIR", "BWD", 0), Line("DIR", "FWD", 0), Line("SPEED", "3000", 3000),
    Line("SPEED", "0", 0), Line("STOP", "", 0),
    Line("CONFIG", "FSTART", 50) }

\* the dual-motor firmware is not running
InitSimple ==
  /\ Boot(DefaultConfig)
  /\ commands = 0

NextSimple ==
  \/ Millis
  \/ loopIdle
  \/ \E line \in SimpleLines : loopLine(line)

SpecSimple == InitSimple /\ [][NextSimple]_vars

\* loop() is called again and again, and time passes
SpecSimpleLive == SpecSimple /\ WF_vars(Millis) /\ WF_vars(loopIdle)

\* Runs with the step timer interrupting, under SPEED:3000, STOP and
\* DIR:BWD.
PulseLines ==
  { Line("SPEED", "3000", 3000), Line("STOP", "", 0), Line("DIR", "BWD", 0) }

NextPulse ==
  \/ Millis
  \/ StepTimer
  \/ loopIdle
  \/ \E line \in PulseLines : loopLine(line)

SpecPulse == InitSimple /\ [][NextPulse]_vars

SpecPulseLive == SpecPulse /\ WF_vars(Millis) /\ WF_vars(loopIdle)

\* Runs of the single-motor firmware in which the host lowers the maximum
\* frequency.
LimitLines ==
  { Line("SPEED", "3000", 3000), Line("CONFIG", "MAXHZ", 1000),
    Line("STOP", "", 0) }

NextLimit ==
  \/ Millis
  \/ loopIdle
  \/ \E line \in LimitLines : loopLine(line)

SpecLimit == InitSimple /\ [][NextLimit]_vars

\* ===================================================================
\* Properties
\* ===================================================================
cur(i) == motor[i].currentSpeed
UpdateSpeedStep == ControlTick \/ DirWaitIter \/ StopWaitIter \/ EstopWaitIter
\* the motor whose busy-wait is running
Waiting(i) == wait \in {"dir", "stop"} /\ ThisCall.m = i
\* no later control tick changes motor i
Steady(i) ==
  /\ script = << >>
  /\ motor[i].isRunning
  /\ ~motor[i].boostActive
  /\ motor[i].currentSpeed = motor[i].targetSpeed

\* C1: in every reachable state each motor's currentSpeed lies in
\* [0, MAX_SPEED], whatever the commands' arguments and the multiplier.
C1_SpeedBounds ==
  \A i \in Motors : 0 <= cur(i) /\ cur(i) <= MAX_SPEED

\* a control tick has held a running motor at MAX_SPEED under a target above it
C1_Witness ==
  \E i \in Motors :
    /\ script = << >> /\ sinceAccel = 0
    /\ motor[i].isRunning
    /\ motor[i].targetSpeed > MAX_SPEED
    /\ cur(i) = MAX_SPEED

\* C2: every call of updateSpeed changes currentSpeed by at most accelStep
\* (only the forced zeroing that ends emergencyStop may change it by more).
C2_RampLimit ==
  [][UpdateSpeedStep =>
       \A i \in Motors : Abs(motor'[i].currentSpeed - cur(i)) <= accelStep]_vars

\* C3: emergencyStop's wait loop runs for at most ESTOP_TIMEOUT ms, and
\* when emergencyStop returns both motors have currentSpeed 0, isRunning
\* false, the timer ended and the step output low.
EstopPost ==
  \A i \in Motors :
    /\ cur(i) = 0
    /\ ~motor[i].isRunning
    /\ motor[i].timer = 0
    /\ motor[i].stepPin = "LOW"

C3_EstopBound ==
  /\ [](wait = "estop" => stopElapsed <= ESTOP_TIMEOUT)
  /\ [][EstopWaitExit => EstopPost']_vars

\* the deadline has passed with a motor still moving
C3_Witness ==
  /\ wait = "estop"
  /\ stopElapsed = ESTOP_TIMEOUT
  /\ \E i \in Motors : cur(i) > STOP_THRESHOLD

\* C4: during a gated reversal the direction and its pin change only once
\* currentSpeed <= 300, and currentSpeed never rises on the way there.
C4_ReversalSafety ==
  [][wait = "dir" =>
       LET i == ThisCall.m
       IN /\ motor'[i].direction # motor[i].direction
               => cur(i) <= DIR_LOW_THRESHOLD
          /\ motor'[i].dirPin # motor[i].dirPin
               => cur(i) <= DIR_LOW_THRESHOLD
          /\ motor'[i].currentSpeed <= cur(i)]_vars

\* C5: every iteration of the busy-waits of stopMotor and setDirection
\* lowers ceil(currentSpeed / accelStep) by at least one, so a wait entered
\* at speed s makes at most ceil(s / accelStep) iterations; stopMotor
\* returns with isRunning false, currentSpeed 0 and the timer ended.
Rank(i) == CeilDiv(cur(i), accelStep)

C5_WaitsTerminate ==
  /\ [][StopWaitIter \/ DirWaitIter =>
          LET i == ThisCall.m
          IN CeilDiv(motor'[i].currentSpeed, accelStep) <= Rank(i) - 1]_vars
  /\ [][StopWaitExit =>
          LET i == ThisCall.m
          IN /\ ~motor'[i].isRunning
             /\ motor'[i].currentSpeed = 0
             /\ motor'[i].timer = 0]_vars

\* C6: a control tick on a running motor with no boost pending and a target
\* T in [0, MAX_SPEED] leaves T alone, moves currentSpeed toward T and
\* lowers the number of ticks still needed, ceil(|T - currentSpeed| /
\* accelStep), by exactly one until it is 0, where currentSpeed = T stays.
TicksLeft(m) == CeilDiv(Abs(m.targetSpeed - m.currentSpeed), accelStep)
Between(x, a, b) == Min(a, b) <= x /\ x <= Max(a, b)

C6_Convergence ==
  [][ControlTick =>
       \A i \in Motors :
         (/\ motor[i].isRunning
          /\ ~motor[i].boostActive
          /\ motor[i].targetSpeed >= 0
          /\ motor[i].targetSpeed <= MAX_SPEED)
         => /\ motor'[i].targetSpeed = motor[i].targetSpeed
            /\ TicksLeft(motor'[i]) = Max(TicksLeft(motor[i]) - 1, 0)
            /\ Between(motor'[i].currentSpeed, cur(i), motor[i].targetSpeed)
            /\ TicksLeft(motor'[i]) = 0
                 <=> motor'[i].currentSpeed = motor[i].targetSpeed]_vars

\* a running motor has been snapped onto a target that is no multiple of
\* accelStep away from where it started
C6_Witness ==
  \E i \in Motors :
    /\ Steady(i) /\ sinceAccel = 0
    /\ motor[i].targetSpeed = DIR_SAFE_SPEED

\* C7: once a motor is steady after a SPEED:v command (v > 0) that no
\* command followed, its currentSpeed is min(v, MAX_SPEED).
C7_SpeedReached ==
  \A i \in Motors : \A v \in speedReq[i] :
    (v > 0 /\ script = << >> /\ ~motor[i].boostActive
       /\ cur(i) = motor[i].targetSpeed)
    => cur(i) = Min(v, MAX_SPEED)

\* C8: once the boost that applyBoost(m, r) started has ended, with no
\* SPEED, SPIN, BOOST, STOP or ESTOP command since, targetSpeed is r
\* (outside the busy-wait of a reversal of that motor).
C8_BoostReturns ==
  \A i \in Motors : \A r \in boostReq[i] :
    (~motor[i].boostActive /\ ~Waiting(i)) => motor[i].targetSpeed = r

\* C9: after every control tick a motor whose boost is still active has
\* had less than boostConfig.duration ms of boost.
C9_BoostTimeBounded ==
  [][ControlTick =>
       \A i \in Motors :
         motor'[i].boostActive
         => motor'[i].boostElapsed < boostConfig.duration]_vars

\* C10: after applyBoost(2000) at standstill under the default
\* configuration, every control tick raises currentSpeed by accelStep up to
\* 3000 while the boost lasts, the boost ends at the first tick that finds
\* 800 ms elapsed (with currentSpeed at 3000), and from then on every tick
\* lowers currentSpeed by accelStep down to 2000; 3000 is reached at tick
\* 38, 370 to 380 ms after the boost started.
ShapeBoost == (SHAPE_SPEED * BOOST_MULTIPLIER) \div 10

ShapeTick(a, b) ==
  /\ b.boostActive <=> (a.boostActive /\ a.boostElapsed < BOOST_DURATION)
  /\ (a.boostActive /\ ~b.boostActive) => a.currentSpeed = ShapeBoost
  /\ b.currentSpeed = IF b.boostActive
                      THEN Min(a.currentSpeed + accelStep, ShapeBoost)
                      ELSE Max(a.currentSpeed - accelStep, SHAPE_SPEED)
  /\ Abs(b.currentSpeed - a.currentSpeed) <= accelStep

\* the speed after n ticks of the rise
Rise(n) == Min(n * accelStep, ShapeBoost)

ShapeTiming(m) ==
  (m.boostActive /\ script = << >> /\ sinceAccel = 0)
  => LET n == m.boostElapsed \div accelUpdateInterval
     IN m.currentSpeed \in {Rise(n), Rise(n + 1)}

C10_BoostShape ==
  /\ [][ControlTick =>
          \A i \in Motors :
            boostReq[i] = {SHAPE_SPEED} => ShapeTick(motor[i], motor'[i])]_vars
  /\ [](\A i \in Motors : boostReq[i] = {SHAPE_SPEED} => ShapeTiming(motor[i]))

\* the boost is over and the motor has come down to the requested speed
C10_Witness ==
  \E i \in Motors :
    /\ boostReq[i] = {SHAPE_SPEED}
    /\ Steady(i)
    /\ cur(i) = SHAPE_SPEED

\* C11: in every reachable state a motor whose boost is active has
\* targetSpeed = boostSpeed, and boostSpeed <= MAX_SPEED.
C11_BoostTarget ==
  \A i \in Motors :
    motor[i].boostActive
    => /\ motor[i].targetSpeed = motor[i].boostSpeed
       /\ motor[i].boostSpeed <= MAX_SPEED

\* C12: applyBoost(m, r) leaves the motor as the reference says: with
\* boost disabled, the state of setSpeed(m, r) with boostActive,
\* boostStartTime, boostSpeed and normalSpeed as before; otherwise
\* boostSpeed = min(r x multiplier, MAX_SPEED), normalSpeed = r,
\* boostActive set, boostStartTime = now, targetSpeed = boostSpeed, and
\* currentSpeed, isRunning and direction as before.
BoostState(m) ==
  << m.boostActive, m.boostElapsed, m.boostSpeed, m.normalSpeed >>

C12_ApplyBoostReference ==
  [][DoApplyBoost =>
       LET a == motor[ThisCall.m]
           b == motor'[ThisCall.m]
           r == ThisCall.arg
       IN IF ~boostConfig.enabled
          THEN /\ b.targetSpeed = constrain(r, 0, MAX_SPEED)
               /\ b = setSpeed(a, r)
               /\ BoostState(b) = BoostState(a)
          ELSE /\ b.boostSpeed =
                    Min((r * boostConfig.multiplier) \div 10, MAX_SPEED)
               /\ b.normalSpeed = r
               /\ b.boostActive
               /\ b.boostElapsed = 0
               /\ b.targetSpeed = b.boostSpeed
               /\ b.currentSpeed = a.currentSpeed
               /\ b.isRunning = a.isRunning
               /\ b.direction = a.direction
               /\ position' = position]_vars

\* applyBoost has capped a boost speed that the multiplier took above MAX_SPEED
C12_Witness ==
  \E i \in Motors :
    /\ motor[i].boostActive
    /\ motor[i].boostElapsed = 0
    /\ (motor[i].normalSpeed * boostConfig.multiplier) \div 10 > MAX_SPEED
    /\ motor[i].boostSpeed = MAX_SPEED
    /\ motor[i].targetSpeed = MAX_SPEED

\* C13: a CONFIG:BOOST command leaves boostConfig.multiplier >= 1.0 and
\* boostConfig.duration between 50 and 1000 ms, whatever values it carried.
C13_ConfigClamped ==
  [][boostConfig' # boostConfig =>
       /\ boostConfig'.multiplier >= 10
       /\ boostConfig'.duration >= 50
       /\ boostConfig'.duration <= 1000]_vars

\* C14: in every reachable state each motor's targetSpeed lies in
\* [0, MAX_SPEED].
C14_TargetBounds ==
  \A i \in Motors :
    0 <= motor[i].targetSpeed /\ motor[i].targetSpeed <= MAX_SPEED

\* C18: under both-motor commands only, wherever time passes (inside the
\* blocking waits and between commands) the two step timers are both ended
\* or programmed with the same rate, and the two directions are equal.
C18_PairSync ==
  (wait # "none" \/ script = << >>)
  => /\ motor[1].timer = motor[2].timer
     /\ motor[1].direction = motor[2].direction

\* C19: whenever a motor's direction pin changes, the step rate last
\* programmed into its timer is at most the high threshold.
C19_SlowBeforeDirPin ==
  [][\A i \in Motors :
       motor'[i].dirPin # motor[i].dirPin
       => motor[i].timer <= DIR_HIGH_THRESHOLD]_vars

\* C20: from the start of stopMotor's wait to the ending of the timer, the
\* rate programmed into the motor's timer changes by at most accelStep per
\* step, so the timer is ended from a rate of at most accelStep.
C20_GradualStop ==
  [][wait = "stop" =>
       LET i == ThisCall.m
       IN Abs(motor'[i].timer - motor[i].timer) <= accelStep]_vars

\* C15: the STATUS read that follows a completed SYNC or both-motor RESET
\* prints position 0 for motor 1, position 0 for motor 2 and drift 0.
C15_SyncReset ==
  [][(DoPrintDrift /\ zeroReq) => report' = << 0, 0, 0 >>]_vars

\* C16: no step ISR runs between the reprogramming of motor 1's timer and
\* the reprogramming of motor 2's timer in a control tick.
InCommit == tickRest = << Call("updateTimer", 2, 0) >>

C16_CommitMasked ==
  [][(\E i \in Motors : StepISR(i)) => ~InCommit]_vars

\* C17: every control tick calls updateSpeed for both motors, no timer is
\* reprogrammed while an updateSpeed of the tick is still to come, and
\* between the two reprogrammings no motor's speed, target, direction or
\* boost state changes and nothing but motor 2's reprogramming moves the
\* tick on.
MotionState(m) ==
  << m.currentSpeed, m.targetSpeed, m.isRunning, m.direction, m.dirPin,
     BoostState(m) >>

C21_SlowTimerOff ==
  /\ [][ControlTick =>
          \A i \in Motors :
            motor'[i].currentSpeed < Sps(1) => motor'[i].timer = 0]_vars
  /\ [](\A i \in Motors :
          motor[i].timer > 0 => PeriodUs(motor[i].timer) <= 1000000)

\* C22: after every control tick each motor with isRunning false has
\* currentSpeed 0 and its timer ended, whatever its targetSpeed and boost
\* fields.
C22_StoppedMeansOff ==
  [][ControlTick =>
       \A i \in Motors :
         ~motor'[i].isRunning
         => motor'[i].currentSpeed = 0 /\ motor'[i].timer = 0]_vars

\* a control tick has just passed over a motor that is not running under a
\* target above 0
C22_Witness ==
  /\ script = << >> /\ sinceAccel = 0 /\ commands > 0
  /\ \E i \in Motors :
       ~motor[i].isRunning /\ motor[i].targetSpeed > 0 /\ cur(i) = 0

BetweenLoads ==
  /\ Len(script) >= 2
  /\ script[1].op = "readPosition"
  /\ script[2].op # "readPosition"

C24_DriftSnapshot ==
  /\ [][(\E i \in Motors : StepISR(i)) => ~BetweenLoads]_vars
  /\ [][(DoReadPosition /\ BetweenLoads) =>
          Abs(posRead'[1] - posRead'[2])
            = Abs(position[1] - position[2])]_vars

\* C25: a motor's position changes only by a step ISR of that motor, by
\* exactly its direction (+1 or -1), or to 0 by RESET or SYNC; and a step
\* ISR changes nothing but its own motor's position.
C25_PositionWriters ==
  /\ [][\A i \in Motors :
          position'[i] # position[i]
          => \/ /\ StepISR(i)
                /\ motor[i].direction \in {1, -1}
                /\ position'[i] = position[i] + motor[i].direction
             \/ /\ DoSync \/ DoZeroPosition
                /\ position'[i] = 0]_vars
  /\ [][\A i \in Motors :
          StepISR(i)
          => /\ motor' = motor
             /\ boostConfig' = boostConfig
             /\ \A j \in Motors \ {i} : position'[j] = position[j]]_vars

\* a motor running backward has counted below 0
C25_Witness ==
  \E i \in Motors :
    /\ position[i] < 0
    /\ motor[i].direction = -1
    /\ motor[i].isRunning

\* C26: a line with an unknown verb, an unknown motor selector or an
\* unknown SPIN or BOOST direction word is answered with an error or usage
\* message, makes no call and leaves both motors and boostConfig as they
\* were.
ErrorReplies ==
  {"Unknown command", "Invalid SPIN direction", "Invalid BOOST direction"}

C26_MalformedIgnored ==
  [][\A line \in BadLines :
       ProcessLine(line)
       => /\ reply' \in ErrorReplies
          /\ script' = << >>
          /\ motor' = motor
          /\ position' = position
          /\ boostConfig' = boostConfig]_vars

\* SPIN with an unknown direction word has been turned down while the
\* motors were running, and nothing is left to call
C26_Witness ==
  /\ reply = "Invalid SPIN direction"
  /\ script = << >>
  /\ motor[1].isRunning /\ cur(1) > 0

\* C30: once emergencyStop has returned, and while no command but RUN
\* follows, both motors have targetSpeed 0 and no boost pending, and their
\* currentSpeed stays 0.
C30_NoMotionAfterEstop ==
  estopReq
  => \A i \in Motors :
       /\ motor[i].targetSpeed = 0
       /\ ~motor[i].boostActive
       /\ cur(i) = 0

\* C27: single-motor firmware: the direction output changes only at a
\* moment when currentFreq <= fStart and no ramp is active, and a direction
\* command received while the motor is above fStart never changes the
\* output in the same iteration of loop().
C27_DirChangeSafe ==
  /\ [][fw'.curDirFwd # fw.curDirFwd
          => fw'.currentFreq <= fw'.fStart /\ ~fw'.rampActive]_vars
  /\ [][\A line \in SimpleLines :
          (loopLine(line) /\ line.verb = "DIR" /\ fw.currentFreq > fw.fStart)
            => fw'.curDirFwd = fw.curDirFwd]_vars

\* a reversal requested while the motor ran steadily at a commanded
\* frequency above fStart has been committed, no command since the request
Reversed == reversal.phase = "committed" /\ reversal.freq > fw.fStart

\* C28: single-motor firmware: once a reversal requested while the motor ran
\* at a commanded frequency f > fStart has been committed, currentFreq
\* eventually equals f again, unless a further command arrives.
C28_ResumesAfterReversal ==
  Reversed ~> (fw.currentFreq = reversal.freq \/ reversal.phase # "committed")

\* the direction change has been committed
DirCommitted ==
  /\ fw.curDirFwd = fw.reqDirFwd
  /\ ~fw.dirChangeRequested
  /\ ~fw.inDirectionHold

\* C29: single-motor firmware: a pending direction change is eventually
\* committed unless a further command arrives, and loop() commits it only
\* out of a hold that began at or below fStart with no ramp active and has
\* lasted at least holdStationaryMs.
C29_DirChangeCommitted ==
  /\ \A n \in 0..SimMaxCommands :
       (fw.dirChangeRequested /\ simCommands = n)
         ~> (DirCommitted \/ simCommands > n)
  /\ [][(loopIdle /\ fw.dirChangeRequested /\ ~fw'.dirChangeRequested)
          => /\ fw.inDirectionHold
             /\ fw.holdElapsed >= fw.holdStationaryMs
             /\ DirCommitted']_vars
  /\ [][(loopIdle /\ ~fw.inDirectionHold /\ fw'.inDirectionHold)
          => fw'.currentFreq <= fw'.fStart /\ ~fw'.rampActive]_vars

C29_Witness ==
  /\ Reversed
  /\ DirCommitted
  /\ ~fw.curDirFwd
  /\ fw.currentFreq = fw.fStart

\* C31: a motor that runs steadily at a currentSpeed of at least 1 step/s
\* keeps stepping: from any such state with the counter at 0, the counter
\* eventually leaves 0 unless a command ends the steady run.
C31_KeepsStepping ==
  \A i \in Motors :
    (Steady(i) /\ cur(i) >= Sps(1) /\ position[i] = 0)
      ~> (position[i] # 0 \/ ~Steady(i))

\* the sequence s is a leading part of the sequence t
IsPrefix(s, t) == Len(s) <= Len(t) /\ s = SubSeq(t, 1, Len(s))

\* C32: every line received is dispatched to processCommand as its own
\* command and in arrival order: the texts processCommand has been given
\* are, in order, the first lines the host sent.
C32_EachLineDispatched == IsPrefix(serial.dispatched, serial.sent)

\* SYNC has written motor1.position = 0 and not yet motor2.position = 0
BetweenSyncWrites == script # << >> /\ Head(script) = Call("syncZero", 2, 0)

\* C33: SYNC zeroes both counters atomically with respect to the step
\* ISRs: no step ISR runs between its two writes, and when SYNC has
\* written the second counter both counters are 0.
C33_SyncAtomic ==
  /\ [][(\E i \in Motors : StepISR(i)) => ~BetweenSyncWrites]_vars
  /\ [][(DoSync /\ BetweenSyncWrites) => position' = << 0, 0 >>]_vars

\* SYNC is between its two writes while motor 1 is running with its timer
\* period elapsed, and motor 2 has counted
C33_Witness ==
  /\ BetweenSyncWrites
  /\ PeriodElapsed(motor[1])
  /\ position[1] = 0
  /\ position[2] # 0

\* the motor is at rest: no ramp, frequency 0, pulser disabled, step output
\* low
Halted ==
  /\ ~fw.rampActive
  /\ fw.currentFreq = 0
  /\ ~fw.pulseEnable
  /\ fw.stepPin = "LOW"

\* C34: single-motor firmware: from the STOP on and as long as no further
\* command comes, no direction change is pending and curDirFwd does not
\* change, and the motor eventually is at rest.
C34_StopCancelsAndHalts ==
  /\ [][lastLine'.verb = "STOP"
          => fw'.curDirFwd = fw.curDirFwd /\ ~fw'.dirChangeRequested]_vars
  /\ (lastLine.verb = "STOP") ~> (Halted \/ lastLine.verb # "STOP")

\* STOP came while a direction change was pending, and the motor, which
\* had stepped, is at rest
C34_Witness ==
  /\ lastLine.verb = "STOP"
  /\ Halted
  /\ fw.reqDirFwd # fw.curDirFwd
  /\ fw.stepsExecuted > 0

\* C35: single-motor firmware: when a direction change was requested with
\* the motor stopped (currentFreq 0, pulser disabled, no ramp) and no
\* command has come since, the pulser is disabled and currentFreq is 0,
\* during the change and after it is committed.
C35_DirNeverStartsMotion ==
  (reversal.phase # "none" /\ reversal.stopped)
    => (fw.currentFreq = 0 /\ ~fw.pulseEnable)

\* C36: single-motor firmware: dirChangeRequested implies
\* reqDirFwd # curDirFwd.
C36_RequestMeansDifference ==
  fw.dirChangeRequested => fw.reqDirFwd # fw.curDirFwd

\* C37: single-motor firmware: as long as no command line has been read
\* the motor is stopped: pulser disabled, currentFreq 0, no step counted.
C37_StoppedAfterSetup ==
  simCommands = 0
    => (~fw.pulseEnable /\ fw.currentFreq = 0 /\ fw.stepsExecuted = 0)

\* C38: single-motor firmware: currentFreq is 0 or lies between 1 Hz and
\* the configured maximum targetFreq, also after CONFIG:MAXHZ has lowered
\* the maximum while the motor runs.
C38_MaxIsHardLimit ==
  \/ fw.currentFreq = 0
  \/ (Hz(1) <= fw.currentFreq /\ fw.currentFreq <= fw.targetFreq)

RisingEdge == fw.stepPin = "LOW" /\ fw'.stepPin = "HIGH"

\* C39: single-motor firmware: stepsExecuted changes exactly on the
\* low-to-high transitions of the step output, and then by +1; while the
\* pulser is disabled the step output is low, and neither the output nor
\* stepsExecuted changes as long as it stays disabled.
C39_CountsRisingEdges ==
  /\ [][(fw'.stepsExecuted # fw.stepsExecuted \/ RisingEdge)
          => (RisingEdge /\ fw'.stepsExecuted = fw.stepsExecuted + 1)]_vars
  /\ [](~fw.pulseEnable => fw.stepPin = "LOW")
  /\ [][(~fw.pulseEnable /\ ~fw'.pulseEnable)
          => (fw'.stepPin = fw.stepPin
              /\ fw'.stepsExecuted = fw.stepsExecuted)]_vars

\* the pulser was disabled while the step output was high, after a step
\* had been counted
C39_Witness ==
  fw.stepsExecuted > 0 /\ ~fw.pulseEnable /\ fw.stepState

====
